---- MODULE Spec2Model ----
(***************************************************************************)
(* Model of PresentationGenerator (src/main.py): a JSON deck description   *)
(* is walked slide by slide and turned into a presentation document that   *)
(* is saved at the end of generate().                                      *)
(*                                                                         *)
(* Python dicts are TLA+ functions whose DOMAIN is the set of keys that    *)
(* are present; Python strings are sequences of one-character strings, so  *)
(* that "" is <<>> and string formatting is sequence concatenation.        *)
(* Lengths are kept in EMU, as pptx.util does (914400 per inch, 12700 per  *)
(* point); Inches takes tenths of an inch to stay within the integers.     *)
(***************************************************************************)
EXTENDS Integers, Sequences, FiniteSets, TLC

VARIABLES
    file,          \* state of the JSON input file on disk
    data,          \* self.data: the parsed JSON tree
    prs,           \* self.prs.slides: the slides of the output document
    props,         \* self.prs.core_properties (title, author)
    slide_titles,  \* self.slide_titles
    pc,            \* position in __init__ / generate
    idx,           \* number of slide descriptors the loop of generate has taken
    result,        \* what the call returned or raised
    error,         \* the exception that ended the call, "none" if none did
    outFile,       \* the output file of the current call on disk
    log,           \* diagnostics printed so far
    calls,         \* number of generate calls begun on the generator
    planned,       \* number of generate calls the caller makes
    saved          \* the documents prs.save has written, in order

vars == <<file, data, prs, props, slide_titles, pc, idx, result, error, outFile, log,
          calls, planned, saved>>

----------------------------------------------------------------------------
(* Bounds of the model                                                      *)

MaxSlides == 3
MaxRows == 2
MaxCols == 2
MaxImages == 2
MaxCalls == 2

----------------------------------------------------------------------------
(* Library facts the code relies on                                         *)

\* Presentation() opens the default template, which has 11 slide layouts.
NumLayouts == 11

\* Placeholder type codes of the slides made from each layout of the default
\* template (1 title, 2 body, 3 centre title, 4 subtitle, 5 vertical title,
\* 6 vertical body, 7 object, 18 picture).
LayoutPlaceholders(l) ==
    CASE l = 0 -> <<3, 4>>
      [] l = 1 -> <<1, 7>>
      [] l = 2 -> <<1, 2>>
      [] l = 3 -> <<1, 7, 7>>
      [] l = 4 -> <<1, 2, 7, 2, 7>>
      [] l = 5 -> <<1>>
      [] l = 6 -> <<>>
      [] l = 7 -> <<1, 7, 2>>
      [] l = 8 -> <<1, 18, 2>>
      [] l = 9 -> <<1, 6>>
      [] OTHER -> <<5, 6>>

Inches(tenths) == tenths * 91440

Pt(points) == points * 12700

\* dict.get(key, default)
Get(d, key, default) == IF key \in DOMAIN d THEN d[key] ELSE default

\* The empty dict / an object with no property set.
Empty == [k \in {} |-> TRUE]

RECURSIVE Str(_)
\* str(n) for n >= 0: the decimal digits of n.
Str(n) ==
    LET digit == <<"0", "1", "2", "3", "4", "5", "6", "7", "8", "9">>
    IN  IF n < 10 THEN <<digit[n + 1]>>
        ELSE Str(n \div 10) \o <<digit[(n % 10) + 1]>>

----------------------------------------------------------------------------
(* The file system the run sees                                             *)

\* Paths for which os.path.exists is true.
ExistingFiles == {"ok.png", "corrupt.png"}

\* Existing files that add_picture cannot read as an image.
UnreadableImages == {"corrupt.png"}

----------------------------------------------------------------------------
(* Document objects                                                         *)

\* A paragraph as text_frame.add_paragraph() returns it: no text, level 0,
\* nothing overridden in its font, alignment inherited.
NewParagraph == [text |-> <<>>, level |-> 0, font |-> Empty, alignment |-> "inherit"]

\* slide.shapes.add_textbox(left, top, width, height): a text frame that
\* holds one empty paragraph.
NewTextbox(left, top, width, height) ==
    [kind |-> "textbox", left |-> left, top |-> top, width |-> width,
     height |-> height, paragraphs |-> <<NewParagraph>>]

\* prs.slides.add_slide(layout): the placeholders of the layout, no text in
\* them, and no other shape.
NewSlide(layout) ==
    [layout |-> layout,
     placeholders |-> [k \in DOMAIN LayoutPlaceholders(layout) |->
                          [idx |-> k - 1, type |-> LayoutPlaceholders(layout)[k]]],
     shapes |-> <<>>]

\* slide.shapes.title: the first placeholder, when the layout has one.
HasTitle(slide) == Len(slide.placeholders) > 0

SetPlaceholderText(slide, k, text) ==
    [slide EXCEPT !.placeholders[k] = [idx |-> @.idx, type |-> @.type, text |-> text]]

----------------------------------------------------------------------------
(* Content mapper                                                           *)

\* apply_text_styles, one field at a time: only a true `bold` or `italic`
\* is written; `size` and `color` are written whenever the key is present.
\* Mutant of ApplyBold: `bold` is written whenever the key is present.
ApplyBoldAsGiven(font, styles) ==
    IF "bold" \in DOMAIN styles THEN [bold |-> styles["bold"]] @@ font ELSE font

ApplyBold(font, styles) ==
    IF "bold" \in DOMAIN styles /\ styles["bold"] THEN [bold |-> TRUE] @@ font ELSE font

ApplyItalic(font, styles) ==
    IF "italic" \in DOMAIN styles /\ styles["italic"] THEN [italic |-> TRUE] @@ font ELSE font

ApplySize(font, styles) ==
    IF "size" \in DOMAIN styles THEN [size |-> Pt(styles["size"])] @@ font ELSE font

\* [font, err]: RGBColor(color[0], color[1], color[2]) needs three components
ApplyColor(font, styles) ==
    IF "color" \notin DOMAIN styles THEN [font |-> font, err |-> "none"]
    ELSE IF Len(styles["color"]) < 3 THEN [font |-> font, err |-> "IndexError"]
    ELSE [font |-> [color |-> SubSeq(styles["color"], 1, 3)] @@ font, err |-> "none"]

\* apply_text_styles: [font, err]
ApplyTextStyles(font, styles) ==
    ApplyColor(ApplySize(ApplyItalic(ApplyBold(font, styles), styles), styles), styles)

\* The paragraph p appended with the font r.font: [paragraphs, err]
AppendStyled(paragraphs, p, r) ==
    [paragraphs |-> Append(paragraphs, [p EXCEPT !.font = r.font]), err |-> r.err]

\* add_text_item on the paragraphs of a text frame: [paragraphs, err]. The
\* paragraph is added before item['text'] is read.
AddTextItem(paragraphs, item) ==
    IF "text" \notin DOMAIN item
    THEN [paragraphs |-> Append(paragraphs, NewParagraph), err |-> "KeyError"]
    ELSE AppendStyled(paragraphs,
                      [NewParagraph EXCEPT !.text = item["text"],
                                           !.level = Get(item, "level", 0)],
                      IF "style" \in DOMAIN item
                      THEN ApplyTextStyles(NewParagraph.font, item["style"])
                      ELSE [font |-> NewParagraph.font, err |-> "none"])

\* The cell of a new table, before the fill loop reaches it.
BlankCell == [text |-> <<>>, alignment |-> "inherit", font |-> Empty]

\* cols of add_table_to_slide: the length of row 0, or 0 without rows.
TableCols(rowsData) == IF Len(rowsData) > 0 THEN Len(rowsData[1]) ELSE 0

\* Mutant of TableFailRow: a row shorter than row 0 raises as well.
TableFailRowAnyMismatch(rowsData, cols) ==
    LET uneven == {i \in 1..Len(rowsData) : Len(rowsData[i]) # cols}
    IN  IF uneven = {} THEN 0 ELSE CHOOSE i \in uneven : \A k \in uneven : i <= k

\* The first row with more cells than the table has columns, where
\* table.cell(i, j) raises IndexError; 0 when there is none.
TableFailRow(rowsData, cols) ==
    LET tooLong == {i \in 1..Len(rowsData) : Len(rowsData[i]) > cols}
    IN  IF tooLong = {} THEN 0 ELSE CHOOSE i \in tooLong : \A k \in tooLong : i <= k

\* Mutant of TableCell: row 0 is made bold whatever `header` is.
TableCellHeaderAlways(rowsData, header, failRow, i, j) ==
    IF j <= Len(rowsData[i]) /\ (failRow = 0 \/ i <= failRow)
    THEN [text |-> rowsData[i][j], alignment |-> "center",
          font |-> IF i = 1 THEN [bold |-> TRUE, size |-> Pt(14)] ELSE Empty]
    ELSE BlankCell

\* Cell (i, j) after the fill loop of add_table_to_slide, which stops in
\* row failRow: the cells it reached are centred, and those of row 0 are
\* bold 14 pt under a true `header`.
TableCell(rowsData, header, failRow, i, j) ==
    IF j <= Len(rowsData[i]) /\ (failRow = 0 \/ i <= failRow)
    THEN [text |-> rowsData[i][j], alignment |-> "center",
          font |-> IF i = 1 /\ header THEN [bold |-> TRUE, size |-> Pt(14)] ELSE Empty]
    ELSE BlankCell

\* The body of add_table_to_slide once `data` is read: [shapes, err]
AddTable(shapes, rowsData, cols, header, failRow) ==
    IF Len(rowsData) = 0 \/ cols = 0 THEN [shapes |-> shapes, err |-> "none"]
    ELSE [shapes |-> Append(shapes,
                 [kind |-> "table", rows |-> Len(rowsData), cols |-> cols,
                  cells |-> [i \in 1..Len(rowsData) |-> [j \in 1..cols |->
                                TableCell(rowsData, header, failRow, i, j)]]]),
          err |-> IF failRow = 0 THEN "none" ELSE "IndexError"]

\* add_table_to_slide: [shapes, err]
AddTableToSlide(shapes, table_data) ==
    IF "data" \notin DOMAIN table_data THEN [shapes |-> shapes, err |-> "KeyError"]
    ELSE AddTable(shapes, table_data["data"], TableCols(table_data["data"]),
                  Get(table_data, "header", FALSE),
                  TableFailRow(table_data["data"], TableCols(table_data["data"])))

\* The slide with the result r of add_text_item in text box tb: [slide, err]
WithParagraphs(slide, tb, r) ==
    [slide |-> [slide EXCEPT !.shapes[tb].paragraphs = r.paragraphs], err |-> r.err]

\* The slide with the result r of add_table_to_slide: [slide, err]
WithShapes(slide, r) ==
    [slide |-> [slide EXCEPT !.shapes = r.shapes], err |-> r.err]

\* One turn of the loop of add_content_to_slide: dispatch on item['type'];
\* an item of another type is passed over. [slide, err]
ContentItem(slide, tb, item) ==
    IF "type" \notin DOMAIN item THEN [slide |-> slide, err |-> "KeyError"]
    ELSE IF item["type"] = "text"
    THEN WithParagraphs(slide, tb, AddTextItem(slide.shapes[tb].paragraphs, item))
    ELSE IF item["type"] = "table"
    THEN WithShapes(slide, AddTableToSlide(slide.shapes, item))
    ELSE [slide |-> slide, err |-> "none"]

RECURSIVE ContentLoop(_, _, _, _)
\* The loop of add_content_to_slide from item k on, st being [slide, err]
\* so far; tb is the position of the text box among the slide's shapes.
ContentLoop(st, tb, content_data, k) ==
    IF k > Len(content_data) \/ st.err # "none" THEN st
    ELSE ContentLoop(ContentItem(st.slide, tb, content_data[k]), tb, content_data, k + 1)

\* The region add_content_to_slide picks: <<left, top, width, height>>
ContentRegion(layout, position) ==
    IF layout = 3
    THEN IF position = "left"
         THEN <<Inches(5), Inches(15), Inches(42), Inches(50)>>
         ELSE <<Inches(48), Inches(15), Inches(42), Inches(50)>>
    ELSE <<Inches(5), Inches(15), Inches(90), Inches(50)>>

\* add_content_to_slide: [slide, err]
AddContentToSlide(slide, content_data, layout, position) ==
    ContentLoop([slide |-> [slide EXCEPT !.shapes = Append(@,
                     NewTextbox(ContentRegion(layout, position)[1],
                                ContentRegion(layout, position)[2],
                                ContentRegion(layout, position)[3],
                                ContentRegion(layout, position)[4]))],
                 err |-> "none"],
                Len(slide.shapes) + 1, content_data, 1)

\* Mutant of AddSubtitle: the text goes to the first placeholder there is.
AddSubtitleFirstPlaceholder(slide, subtitle_text) ==
    IF Len(slide.placeholders) > 0
    THEN SetPlaceholderText(slide, 1, subtitle_text)
    ELSE slide

\* add_subtitle: the slide with the subtitle written, or unchanged.
\* slide.placeholders[1] is the placeholder whose idx is 1, which every
\* layout of the default template with two placeholders has.
AddSubtitle(slide, subtitle_text) ==
    LET ph == slide.placeholders
        typed == {k \in DOMAIN ph : ph[k].type = 15}
    IN  IF typed # {}
        THEN SetPlaceholderText(slide, CHOOSE k \in typed : \A m \in typed : k <= m,
                                subtitle_text)
        ELSE IF Len(ph) > 1
        THEN SetPlaceholderText(slide, CHOOSE k \in DOMAIN ph : ph[k].idx = 1,
                                subtitle_text)
        ELSE slide

\* The picture add_image inserts, with the defaults of its geometry.
Picture(img_data) ==
    [kind |-> "picture", path |-> img_data["path"],
     left |-> Inches(10 * Get(img_data, "left", 1)),
     top |-> Inches(10 * Get(img_data, "top", 1)),
     width |-> Inches(10 * Get(img_data, "width", 4)),
     height |-> Inches(10 * Get(img_data, "height", 3))]

\* Mutant of AddImage: no os.path.exists test and no try block, so that a
\* missing file raises out of add_image.
AddImageUnguarded(st, img_data) ==
    IF "path" \notin DOMAIN img_data THEN [st EXCEPT !.err = "KeyError"]
    ELSE IF img_data["path"] \notin ExistingFiles
    THEN [st EXCEPT !.err = "FileNotFoundError"]
    ELSE IF img_data["path"] \in UnreadableImages
    THEN [st EXCEPT !.err = "UnidentifiedImageError"]
    ELSE [st EXCEPT !.slide.shapes = Append(@, Picture(img_data)),
                    !.log = Append(@, [msg |-> "image added",
                                       path |-> img_data["path"]])]

\* add_image on st = [slide, log, err]. Without `path` the try block raises
\* KeyError, the handler formats img_data['path'] again, and that second
\* KeyError leaves add_image.
AddImage(st, img_data) ==
    IF "path" \notin DOMAIN img_data THEN [st EXCEPT !.err = "KeyError"]
    ELSE IF img_data["path"] \notin ExistingFiles
    THEN [st EXCEPT !.log = Append(@, [msg |-> "image not found",
                                       path |-> img_data["path"]])]
    ELSE IF img_data["path"] \in UnreadableImages
    THEN [st EXCEPT !.log = Append(@, [msg |-> "image error",
                                       path |-> img_data["path"]])]
    ELSE [st EXCEPT !.slide.shapes = Append(@, Picture(img_data)),
                    !.log = Append(@, [msg |-> "image added",
                                       path |-> img_data["path"]])]

RECURSIVE ImageLoop(_, _, _)
\* The loop over slide_data['images'] from image k on.
ImageLoop(st, images, k) ==
    IF k > Len(images) \/ st.err # "none" THEN st
    ELSE ImageLoop(AddImage(st, images[k]), images, k + 1)

\* The steps of handle_slide_content, each on st = [slide, log, err] and
\* skipped once an exception is on its way out.
SubtitleStep(st, slide_data, layout) ==
    IF layout = 0 /\ "subtitle" \in DOMAIN slide_data
    THEN [st EXCEPT !.slide = AddSubtitle(@, slide_data["subtitle"])]
    ELSE st

\* st with the result r of add_content_to_slide
WithContent(st, r) == [st EXCEPT !.slide = r.slide, !.err = r.err]

ContentStep(st, slide_data, layout) ==
    IF st.err = "none" /\ "content" \in DOMAIN slide_data
    THEN WithContent(st, AddContentToSlide(st.slide, slide_data["content"], layout, "center"))
    ELSE st

ColumnStep(st, slide_data, layout, key, position) ==
    IF st.err = "none" /\ layout = 3 /\ key \in DOMAIN slide_data
    THEN WithContent(st, AddContentToSlide(st.slide, slide_data[key], layout, position))
    ELSE st

ImagesStep(st, slide_data) ==
    IF st.err = "none" /\ "images" \in DOMAIN slide_data
    THEN ImageLoop(st, slide_data["images"], 1)
    ELSE st

\* handle_slide_content: [slide, log, err]
HandleSlideContent(slide, out, slide_data) ==
    ImagesStep(
        ColumnStep(
            ColumnStep(
                ContentStep(
                    SubtitleStep([slide |-> slide, log |-> out, err |-> "none"],
                                 slide_data, Get(slide_data, "layout", 1)),
                    slide_data, Get(slide_data, "layout", 1)),
                slide_data, Get(slide_data, "layout", 1), "left_content", "left"),
            slide_data, Get(slide_data, "layout", 1), "right_content", "right"),
        slide_data)

----------------------------------------------------------------------------
(* Deck builder and finisher                                                *)

\* The title of the table-of-contents slide (the source's literal is the
\* Russian word for "contents"; transliterated here).
TocTitle == <<"O", "g", "l", "a", "v", "l", "e", "n", "i", "e">>

\* The name generate gives the output file: presentation_<timestamp>.pptx
Filename == "presentation_<timestamp>.pptx"

\* What create_slide leaves, r being the result of handle_slide_content.
SlideCreated(slides, titles, r) ==
    [prs |-> Append(slides, r.slide), slide_titles |-> titles, log |-> r.log, err |-> r.err]

\* Mutant of LayoutInRange: an unknown index falls back to some layout.
LayoutAlwaysFound(layout_index) == TRUE

\* Whether prs.slide_layouts[layout_index] finds a layout; otherwise it
\* raises IndexError. (The inputs hold no negative index, which Python
\* counts from the end.)
LayoutInRange(layout_index) == layout_index \in 0..(NumLayouts - 1)

\* Mutant of RecordTitle: an empty title is recorded as well.
RecordTitleAlways(titles, title_text) == Append(titles, title_text)

\* The title bookkeeping of create_slide: a non-empty title is appended to
\* slide_titles.
RecordTitle(titles, title_text) ==
    IF Len(title_text) > 0 THEN Append(titles, title_text) ELSE titles

\* create_slide: [prs, slide_titles, log, err]
CreateSlideOp(slides, titles, out, slide_data) ==
    LET layout_index == Get(slide_data, "layout", 1)
    IN  IF ~LayoutInRange(layout_index)
        THEN [prs |-> slides, slide_titles |-> titles, log |-> out, err |-> "IndexError"]
        ELSE
        SlideCreated(slides,
                     RecordTitle(titles, Get(slide_data, "title", <<>>)),
                     HandleSlideContent(
                         IF HasTitle(NewSlide(layout_index))
                         THEN SetPlaceholderText(NewSlide(layout_index), 1,
                                                 Get(slide_data, "title", <<>>))
                         ELSE NewSlide(layout_index),
                         out, slide_data))

\* Mutant of TocParagraphs: the labels are not brought back to start at 1.
TocParagraphsLabelOff(titles) ==
    <<NewParagraph>> \o
    [k \in 1..(Len(titles) - 1) |->
        [NewParagraph EXCEPT !.text = Str(k + 1) \o <<".", " ">> \o titles[k + 1],
                             !.level = 0,
                             !.font = [size |-> Pt(18)]]]

\* Mutant of TocParagraphs: the first title gets a line as well.
TocParagraphsAllTitles(titles) ==
    <<NewParagraph>> \o
    [k \in 1..Len(titles) |->
        [NewParagraph EXCEPT !.text = Str(k) \o <<".", " ">> \o titles[k],
                             !.level = 0,
                             !.font = [size |-> Pt(18)]]]

\* The paragraphs create_table_of_contents leaves in its text box: the
\* empty one text_frame.clear() keeps, then one line per title after the first.
TocParagraphs(titles) ==
    <<NewParagraph>> \o
    [k \in 1..(Len(titles) - 1) |->
        [NewParagraph EXCEPT !.text = Str((k + 1) - 1) \o <<".", " ">> \o titles[k + 1],
                             !.level = 0,
                             !.font = [size |-> Pt(18)]]]

\* Mutant of TocSkipped: the slide is made for a single title too.
TocSkippedOnlyWhenEmpty(titles) == Len(titles) < 1

\* The early return of create_table_of_contents.
TocSkipped(titles) == Len(titles) <= 1

\* create_table_of_contents: the slides of the document afterwards
CreateTableOfContentsOp(slides, titles) ==
    IF TocSkipped(titles) THEN slides
    ELSE LET slide == NewSlide(1)
             s1 == IF HasTitle(slide) THEN SetPlaceholderText(slide, 1, TocTitle)
                   ELSE slide
             box == [NewTextbox(Inches(5), Inches(15), Inches(90), Inches(50))
                        EXCEPT !.paragraphs = TocParagraphs(titles)]
         IN  Append(slides, [s1 EXCEPT !.shapes = Append(@, box)])

\* Mutant of NumberLabel: the label shows the 0-based position.
NumberLabelZeroBased(i) ==
    [NewTextbox(Inches(85), Inches(70), Inches(10), Inches(5))
        EXCEPT !.paragraphs = <<[NewParagraph EXCEPT !.text = Str(i),
                                                     !.alignment = "right",
                                                     !.font = [size |-> Pt(12)]]>>]

\* The text box add_slide_numbers puts on the slide at 0-based position i.
NumberLabel(i) ==
    [NewTextbox(Inches(85), Inches(70), Inches(10), Inches(5))
        EXCEPT !.paragraphs = <<[NewParagraph EXCEPT !.text = Str(i + 1),
                                                     !.alignment = "right",
                                                     !.font = [size |-> Pt(12)]]>>]

\* add_slide_numbers: the slides of the document afterwards
AddSlideNumbersOp(slides) ==
    [k \in DOMAIN slides |->
        [slides[k] EXCEPT !.shapes = Append(@, NumberLabel(k - 1))]]

----------------------------------------------------------------------------
(* The run: __init__ and generate                                           *)

\* The except clause of generate: the exception is printed and None returned.
Caught(exc) ==
    /\ pc' = "done"
    /\ result' = "None"
    /\ error' = exc

\* PresentationGenerator(json_file): load_data runs inside the constructor.
Construct ==
    /\ pc = "new"
    /\ IF file.status = "ok"
       THEN /\ data' = file.content
            /\ pc' = "constructed"
            /\ UNCHANGED <<result, error>>
       ELSE /\ pc' = "raised"
            /\ result' = "exception"
            /\ error' = IF file.status = "malformed" THEN "JSONDecodeError"
                         ELSE "FileNotFoundError"
            /\ UNCHANGED data
    /\ UNCHANGED <<file, prs, props, slide_titles, idx, outFile, log, calls, planned, saved>>

\* set_presentation_properties: [props, err]
SetPresentationPropertiesOp(p, d) ==
    IF "presentation" \notin DOMAIN d THEN [props |-> p, err |-> "KeyError"]
    ELSE LET pres == d["presentation"]
             p1 == IF "title" \in DOMAIN pres THEN [title |-> pres["title"]] @@ p ELSE p
             p2 == IF "author" \in DOMAIN pres THEN [author |-> pres["author"]] @@ p1 ELSE p1
         IN  [props |-> p2, err |-> "none"]

\* generate, up to the start of its loop: the properties are set and the
\* list of slide descriptors is looked up. The caller may call it on a
\* generator just constructed or on one whose earlier call has returned;
\* self.prs and self.slide_titles are what __init__ or that call left.
GenerateBegin ==
    /\ pc \in {"constructed", "done"}
    /\ calls < planned
    /\ calls' = calls + 1
    /\ idx' = 0
    /\ outFile' = "absent"
    /\ \E r \in {SetPresentationPropertiesOp(props, data)} :
           /\ props' = r.props
           /\ IF r.err # "none" THEN Caught(r.err)
              ELSE IF "slides" \notin DOMAIN data["presentation"] THEN Caught("KeyError")
              ELSE /\ pc' = IF Len(data["presentation"]["slides"]) = 0 THEN "toc"
                             ELSE "slides"
                   /\ result' = "pending"
                   /\ error' = "none"
    /\ UNCHANGED <<file, data, prs, slide_titles, log, planned, saved>>

\* One turn of the loop of generate: create_slide on the next descriptor.
CreateSlide ==
    /\ pc = "slides"
    /\ idx < Len(data["presentation"]["slides"])
    /\ \E r \in {CreateSlideOp(prs, slide_titles, log,
                                data["presentation"]["slides"][idx + 1])} :
           /\ prs' = r.prs
           /\ slide_titles' = r.slide_titles
           /\ log' = r.log
           /\ idx' = idx + 1
           /\ IF r.err # "none" THEN Caught(r.err)
              ELSE /\ pc' = IF idx + 1 = Len(data["presentation"]["slides"]) THEN "toc"
                             ELSE "slides"
                   /\ UNCHANGED <<result, error>>
    /\ UNCHANGED <<file, data, props, outFile, calls, planned, saved>>

\* The table-of-contents step of generate.
CreateTableOfContents ==
    /\ pc = "toc"
    /\ prs' = IF Get(data["presentation"], "table_of_contents", FALSE)
              THEN CreateTableOfContentsOp(prs, slide_titles) ELSE prs
    /\ pc' = "numbers"
    /\ UNCHANGED <<file, data, props, slide_titles, idx, result, error, outFile, log,
                   calls, planned, saved>>

\* The numbering step of generate.
AddSlideNumbers ==
    /\ pc = "numbers"
    /\ prs' = AddSlideNumbersOp(prs)
    /\ pc' = "save"
    /\ UNCHANGED <<file, data, props, slide_titles, idx, result, error, outFile, log,
                   calls, planned, saved>>

\* self.prs.save(filename) writes the file and generate returns its name.
SaveOk ==
    /\ pc = "save"
    /\ outFile' = "saved"
    /\ pc' = "done"
    /\ result' = Filename
    /\ saved' = Append(saved, [call |-> calls, slides |-> prs])
    /\ UNCHANGED <<file, data, prs, props, slide_titles, idx, error, log, calls, planned>>

\* self.prs.save(filename) raises (the directory cannot be written, the
\* disk is full); what it leaves on disk is not generate's to decide.
SaveFails ==
    /\ pc = "save"
    /\ outFile' \in {"absent", "partial"}
    /\ Caught("OSError")
    /\ UNCHANGED <<file, data, prs, props, slide_titles, idx, log, calls, planned, saved>>

Next ==
    \/ Construct
    \/ GenerateBegin
    \/ CreateSlide
    \/ CreateTableOfContents
    \/ AddSlideNumbers
    \/ SaveOk
    \/ SaveFails

----------------------------------------------------------------------------
(* Inputs                                                                   *)

\* All sequences over S of length lo..hi.
SeqsOf(S, lo, hi) == UNION {[1..n -> S] : n \in lo..hi}

TextOk == [type |-> "text", text |-> <<"x">>]

TextStyled ==
    [type |-> "text", text |-> <<"y">>, level |-> 1,
     style |-> [bold |-> TRUE, size |-> 16, color |-> <<0, 51, 102>>]]

Table2x2 ==
    [type |-> "table", header |-> TRUE,
     data |-> << <<(<<"A">>), (<<"B">>)>>, <<(<<"1">>), (<<"2">>)>> >>]

\* Slide descriptors of the deck-level specification: titled and untitled
\* slides, the layouts the code treats specially, an out-of-range layout,
\* and content whose required keys are missing.
DeckSlides ==
    { Empty,
      [title |-> <<>>],
      [title |-> <<"A">>],
      [title |-> <<"B">>],
      [layout |-> 0, title |-> <<"A">>, subtitle |-> <<"s">>],
      [layout |-> NumLayouts, title |-> <<"B">>],
      [layout |-> 3, title |-> <<"A">>, left_content |-> <<TextOk>>,
       right_content |-> <<TextStyled>>],
      [title |-> <<"B">>, content |-> <<TextOk, Table2x2, [type |-> "chart"]>>,
       images |-> <<[path |-> "ok.png"], [path |-> "missing.png"]>>],
      [content |-> <<[text |-> <<"x">>]>>],
      [title |-> <<"A">>, content |-> <<[type |-> "text"]>>],
      [content |-> <<[type |-> "table"]>>] }

\* Values of presentation.table_of_contents: absent, true, false.
TocSettings == {Empty, [table_of_contents |-> TRUE], [table_of_contents |-> FALSE]}

\* JSON documents of the deck-level specification.
Documents ==
    { [other |-> TRUE] }
    \cup { [presentation |-> [title |-> <<"T">>, table_of_contents |-> TRUE]] }
    \cup { [presentation |-> t @@ [slides |-> ss]] :
               t \in TocSettings, ss \in SeqsOf(DeckSlides, 0, MaxSlides) }
    \cup { [presentation |-> [title |-> <<"T">>, author |-> <<"U">>,
                              table_of_contents |-> TRUE, slides |-> <<d>>]] :
               d \in DeckSlides }

\* The state before PresentationGenerator(json_file) is called, for a
\* caller that goes on to call generate a number of times in `limits`.
InitCalls(files, limits) ==
    /\ file \in files
    /\ data = Empty
    /\ prs = <<>>
    /\ props = Empty
    /\ slide_titles = <<>>
    /\ pc = "new"
    /\ idx = 0
    /\ result = "pending"
    /\ error = "none"
    /\ outFile = "absent"
    /\ log = <<>>
    /\ calls = 0
    /\ planned \in limits
    /\ saved = <<>>

\* A caller that calls generate once, as __main__ does.
InitWith(files) == InitCalls(files, {1})

Init ==
    InitWith({[status |-> "malformed"], [status |-> "missing"]}
             \cup {[status |-> "ok", content |-> d] : d \in Documents})

Spec == Init /\ [][Next]_vars

\* A presentation whose slides are ss, with and without a table of contents.
DecksOf(slideLists) ==
    {[status |-> "ok", content |-> [presentation |-> t @@ [slides |-> ss]]] :
        t \in {Empty, [table_of_contents |-> TRUE]}, ss \in slideLists}

\* Table items: `data` absent, or up to MaxRows rows of up to MaxCols cells
\* each, rectangular or not, with `header` absent, true or false.
TableItems ==
    { [type |-> "table"] }
    \cup { [type |-> "table", data |-> d] @@ h :
               d \in SeqsOf(SeqsOf({<<"c">>}, 0, MaxCols), 0, MaxRows),
               h \in {Empty, [header |-> TRUE], [header |-> FALSE]} }

\* Decks with one table item on a slide, alone or between titled slides.
InitTable ==
    InitWith(DecksOf({ pre \o <<[title |-> <<"B">>, content |-> <<t>>]>> \o post :
                          pre \in {<<>>, <<[title |-> <<"A">>]>>},
                          post \in {<<>>, <<[title |-> <<"A">>]>>},
                          t \in TableItems }))

SpecTable == InitTable /\ [][Next]_vars

\* Image descriptors: a readable file, a path that does not exist, a file
\* that is no image, a descriptor without `path`, and explicit geometry.
ImageRefs ==
    { [path |-> "ok.png"], [path |-> "missing.png"], [path |-> "corrupt.png"], Empty,
      [path |-> "ok.png", left |-> 2, top |-> 2, width |-> 3, height |-> 2] }

\* Decks of two slides, the first with up to MaxImages image references.
InitImage ==
    InitWith(DecksOf({ <<[title |-> <<"A">>, images |-> imgs], last>> :
                          imgs \in SeqsOf(ImageRefs, 0, MaxImages),
                          last \in {[title |-> <<"B">>],
                                    [title |-> <<"B">>, images |-> <<[path |-> "gone.png"]>>]} }))

SpecImage == InitImage /\ [][Next]_vars

\* Styles: each of bold and italic absent, true or false; size absent or
\* given; color absent, an RGB triple, or a list too short to be one.
Styles ==
    { b @@ i @@ z @@ c :
        b \in {Empty, [bold |-> TRUE], [bold |-> FALSE]},
        i \in {Empty, [italic |-> TRUE], [italic |-> FALSE]},
        z \in {Empty, [size |-> 16]},
        c \in {Empty, [color |-> <<0, 51, 102>>], [color |-> <<0, 51>>]} }

\* Text items with and without `style`.
TextItems ==
    { TextOk } \cup { [type |-> "text", text |-> <<"y">>, style |-> st] : st \in Styles }

\* Decks with one text item on a slide, alone or after a titled slide.
InitStyle ==
    InitWith(DecksOf({ pre \o <<[title |-> <<"B">>, content |-> <<t>>]>> :
                          pre \in {<<>>, <<[title |-> <<"A">>]>>},
                          t \in TextItems }))

SpecStyle == InitStyle /\ [][Next]_vars

\* Slide descriptors of a two-column layout (3) and of two other layouts
\* (0 and the default), each with any of `content`, `left_content` and
\* `right_content`; the text of an item tells the key it was listed under.
ColumnSlides ==
    { l @@ c @@ lc @@ rc :
        l \in {Empty, [layout |-> 0], [layout |-> 3]},
        c \in {Empty, [content |-> <<[type |-> "text", text |-> <<"c">>]>>]},
        lc \in {Empty, [left_content |-> <<[type |-> "text", text |-> <<"l">>]>>]},
        rc \in {Empty, [right_content |-> <<[type |-> "text", text |-> <<"r">>]>>]} }

\* Decks with one such slide, alone or after a titled slide.
InitColumns ==
    InitWith(DecksOf({ pre \o <<d>> :
                          pre \in {<<>>, <<[title |-> <<"A">>]>>},
                          d \in ColumnSlides }))

SpecColumns == InitColumns /\ [][Next]_vars

\* Slide descriptors with and without `subtitle`, on the title layout (0)
\* and on layouts of two, one and no placeholder (the default, 5 and 6).
SubtitleSlides ==
    { l @@ t @@ st :
        l \in {Empty, [layout |-> 0], [layout |-> 5], [layout |-> 6]},
        t \in {Empty, [title |-> <<"A">>]},
        st \in {Empty, [subtitle |-> <<"s">>]} }

\* Decks with one such slide, alone or after a titled slide.
InitSubtitle ==
    InitWith(DecksOf({ pre \o <<d>> :
                          pre \in {<<>>, <<[title |-> <<"B">>]>>},
                          d \in SubtitleSlides }))

SpecSubtitle == InitSubtitle /\ [][Next]_vars

\* Decks of titled and untitled slides for a caller that calls generate on
\* the same generator up to MaxCalls times.
InitRecall ==
    InitCalls(DecksOf(SeqsOf({Empty, [title |-> <<"A">>], [title |-> <<"B">>]},
                             0, MaxSlides)),
              1..MaxCalls)

SpecRecall == InitRecall /\ [][Next]_vars

----------------------------------------------------------------------------
(* Vocabulary of the properties                                             *)

\* The slide descriptors of the input, <<>> while they cannot be read.
Descriptors ==
    IF "presentation" \in DOMAIN data /\ "slides" \in DOMAIN data["presentation"]
    THEN data["presentation"]["slides"] ELSE <<>>

TocRequested ==
    /\ "presentation" \in DOMAIN data
    /\ "table_of_contents" \in DOMAIN data["presentation"]
    /\ data["presentation"]["table_of_contents"]

HasNonEmptyTitle(d) == "title" \in DOMAIN d /\ d["title"] # <<>>

\* The positions of the descriptors that have a non-empty title.
Titled == {i \in DOMAIN Descriptors : HasNonEmptyTitle(Descriptors[i])}

\* The k-th descriptor with a non-empty title, in deck order.
NthTitled(k) == CHOOSE i \in Titled : Cardinality({j \in Titled : j <= i}) = k

\* generate has returned a file name.
Succeeded == pc = "done" /\ result = Filename

\* generate has returned None because of an exception raised before save.
FailedBeforeSave == pc = "done" /\ result = "None" /\ error # "OSError"

\* The table-of-contents step has run and has added its slide.
TocEmitted ==
    /\ pc \in {"numbers", "save", "done"}
    /\ idx = Len(Descriptors)
    /\ error \in {"none", "OSError"}
    /\ Len(prs) = Len(Descriptors) + 1

\* The title text of a slide, <<>> when it has no title placeholder or no text in it.
TitleOf(slide) ==
    IF Len(slide.placeholders) > 0 /\ "text" \in DOMAIN slide.placeholders[1]
    THEN slide.placeholders[1].text ELSE <<>>

\* Slide k of the document is the content slide of descriptor k.
IsContentSlide(k) ==
    /\ prs[k].layout = (IF "layout" \in DOMAIN Descriptors[k]
                        THEN Descriptors[k]["layout"] ELSE 1)
    /\ TitleOf(prs[k]) = (IF "title" \in DOMAIN Descriptors[k]
                          THEN Descriptors[k]["title"] ELSE <<>>)

IsTocSlide(slide) == slide.layout = 1 /\ TitleOf(slide) = TocTitle

\* The decimal value of a string of digits, -1 if it is not one.
DigitValue(c) ==
    CASE c = "0" -> 0 [] c = "1" -> 1 [] c = "2" -> 2 [] c = "3" -> 3 [] c = "4" -> 4
      [] c = "5" -> 5 [] c = "6" -> 6 [] c = "7" -> 7 [] c = "8" -> 8 [] c = "9" -> 9
      [] OTHER -> -1

RECURSIVE Decimal(_)
Decimal(str) ==
    IF str = <<>> \/ DigitValue(str[Len(str)]) < 0 THEN -1
    ELSE IF Len(str) = 1 THEN DigitValue(str[1])
    ELSE IF Decimal(SubSeq(str, 1, Len(str) - 1)) < 0 THEN -1
    ELSE 10 * Decimal(SubSeq(str, 1, Len(str) - 1)) + DigitValue(str[Len(str)])

----------------------------------------------------------------------------
(* C1: slide count                                                          *)

\* C1: when generate succeeds on a deck of N >= 1 descriptors, the document
\* holds the N content slides, in order, followed by exactly one
\* table-of-contents slide if table_of_contents is true and at least two
\* descriptors have a non-empty title, and by nothing otherwise.
C1_SlideCount ==
    (Succeeded /\ Len(Descriptors) >= 1) =>
        /\ Len(prs) >= Len(Descriptors)
        /\ \A k \in DOMAIN Descriptors : IsContentSlide(k)
        /\ IF TocRequested /\ Cardinality(Titled) >= 2
           THEN Len(prs) = Len(Descriptors) + 1 /\ IsTocSlide(prs[Len(prs)])
           ELSE Len(prs) = Len(Descriptors)

\* A successful run of three descriptors, one untitled, followed by a
\* table-of-contents slide.
C1_Witness ==
    /\ Succeeded
    /\ Len(Descriptors) = 3
    /\ Cardinality(Titled) = 2
    /\ Len(prs) = 4
    /\ IsTocSlide(prs[4])

----------------------------------------------------------------------------
(* C2: slide numbering                                                      *)

\* A text box in the fixed bottom-right place of the slide-number label.
IsNumberLabel(shape) ==
    /\ shape.kind = "textbox"
    /\ shape.left = Inches(85) /\ shape.top = Inches(70)
    /\ shape.width = Inches(10) /\ shape.height = Inches(5)

NumberLabels(slide) == SelectSeq(slide.shapes, IsNumberLabel)

\* The numbering step of generate has finished.
Numbered == pc = "save" \/ (pc = "done" /\ error \in {"none", "OSError"})

\* The slides the document must hold once the loop and the
\* table-of-contents step are over.
ExpectedSlideCount ==
    Len(Descriptors) + (IF TocRequested /\ Cardinality(Titled) >= 2 THEN 1 ELSE 0)

\* C2: no slide carries a number label before the numbering step; the step
\* runs when every content slide and the table-of-contents slide (if any)
\* are in the document, and once it has finished every slide, the
\* table-of-contents slide included, carries exactly one number label, whose
\* text is the decimal form of the slide's 1-based position.
C2_Numbering ==
    /\ ~Numbered => \A k \in DOMAIN prs : NumberLabels(prs[k]) = <<>>
    /\ Numbered =>
          /\ idx = Len(Descriptors)
          /\ Len(prs) = ExpectedSlideCount
          /\ \A k \in DOMAIN prs :
                /\ Len(NumberLabels(prs[k])) = 1
                /\ Len(NumberLabels(prs[k])[1].paragraphs) = 1
                /\ Decimal(NumberLabels(prs[k])[1].paragraphs[1].text) = k

\* Numbering has finished on a document of three content slides and a
\* table-of-contents slide, which carries the label 4.
C2_Witness ==
    /\ Numbered
    /\ Len(prs) = 4
    /\ IsTocSlide(prs[4])
    /\ NumberLabels(prs[4])[1].paragraphs[1].text = <<"4">>

----------------------------------------------------------------------------
(* C3, C4: the table of contents                                            *)

IsTextbox(shape) == shape.kind = "textbox"

HasText(paragraph) == paragraph.text # <<>>

\* The lines of the table of contents: the paragraphs with text in the
\* first text box of the last slide.
TocLines == SelectSeq(SelectSeq(prs[Len(prs)].shapes, IsTextbox)[1].paragraphs, HasText)

\* The position of the first "." of a line, 0 if it has none.
FirstDot(text) ==
    IF \E i \in DOMAIN text : text[i] = "."
    THEN CHOOSE i \in DOMAIN text :
            text[i] = "." /\ \A j \in 1..(i - 1) : text[j] # "."
    ELSE 0

\* A line reads "{index}. {title}".
WellFormedLine(text) ==
    /\ FirstDot(text) > 1
    /\ FirstDot(text) < Len(text)
    /\ text[FirstDot(text) + 1] = " "
    /\ Decimal(SubSeq(text, 1, FirstDot(text) - 1)) >= 0

LineLabel(text) == Decimal(SubSeq(text, 1, FirstDot(text) - 1))

LineTitle(text) == SubSeq(text, FirstDot(text) + 2, Len(text))

DescriptorTitle(i) ==
    IF "title" \in DOMAIN Descriptors[i] THEN Descriptors[i]["title"] ELSE <<>>

\* C3 as stated: in every deck the line labelled i carries the title of the
\* (i+1)-th original slide.
C3_Original ==
    TocEmitted =>
        \A n \in DOMAIN TocLines :
            /\ WellFormedLine(TocLines[n].text)
            /\ LineLabel(TocLines[n].text) + 1 \in DOMAIN Descriptors
            /\ LineTitle(TocLines[n].text) = DescriptorTitle(LineLabel(TocLines[n].text) + 1)

\* C3, amended: when the table of contents is emitted its lines are
\* labelled 1, 2, ... in order, and the line labelled i carries the title of
\* the (i+1)-th descriptor that has a non-empty title, in deck order; that
\* is the (i+1)-th original slide when the first i+1 slides are all titled.
C3_TocLines ==
    TocEmitted =>
        \A n \in DOMAIN TocLines :
            /\ WellFormedLine(TocLines[n].text)
            /\ LineLabel(TocLines[n].text) = n
            /\ n + 1 <= Cardinality(Titled)
            /\ LineTitle(TocLines[n].text) = DescriptorTitle(NthTitled(n + 1))
            /\ (1..(n + 1) \subseteq Titled) =>
                   LineTitle(TocLines[n].text) = DescriptorTitle(n + 1)

\* A table of contents of a deck whose first slide has no title: its line
\* 1 carries the title of the third slide.
C3_Witness ==
    /\ TocEmitted
    /\ Len(Descriptors) = 3
    /\ Titled = {2, 3}
    /\ DescriptorTitle(2) = <<"A">>
    /\ Len(TocLines) = 1
    /\ TocLines[1].text = <<"1", ".", " ", "B">>

\* C4 as stated: the table of contents has one line per preceding slide.
C4_Original ==
    TocEmitted =>
        /\ IsTocSlide(prs[Len(prs)])
        /\ \A k \in DOMAIN Descriptors : IsContentSlide(k)
        /\ Len(TocLines) = Len(prs) - 1
        /\ \A n \in DOMAIN TocLines : WellFormedLine(TocLines[n].text)
        /\ Len(slide_titles) = Cardinality(Titled)

\* C4, amended: when the table of contents is emitted it is the last slide,
\* after the content slides of all descriptors; it holds one
\* "{index}. {title}" line for every titled slide but the first (one fewer
\* than slide_titles holds), every line carrying the title of a preceding
\* slide; and slide_titles holds the titles of the titled descriptors and
\* nothing else, so the table's own title is not in it.
C4_TocSlide ==
    TocEmitted =>
        /\ IsTocSlide(prs[Len(prs)])
        /\ \A k \in DOMAIN Descriptors : IsContentSlide(k)
        /\ Len(TocLines) = Cardinality(Titled) - 1
        /\ \A n \in DOMAIN TocLines :
              /\ WellFormedLine(TocLines[n].text)
              /\ \E k \in Titled : LineTitle(TocLines[n].text) = DescriptorTitle(k)
        /\ Len(slide_titles) = Cardinality(Titled)
        /\ \A k \in DOMAIN slide_titles : slide_titles[k] = DescriptorTitle(NthTitled(k))

\* A table of contents after three titled slides: two lines, three titles.
C4_Witness ==
    /\ TocEmitted
    /\ Len(Descriptors) = 3
    /\ Titled = {1, 2, 3}
    /\ Len(TocLines) = 2
    /\ Len(slide_titles) = 3

----------------------------------------------------------------------------
(* C5, C6: fatal errors                                                     *)

ValidLayout(d) ==
    "layout" \in DOMAIN d => (d["layout"] >= 0 /\ d["layout"] < NumLayouts)

\* An item that lacks `type`, a text item that lacks `text`, a table item
\* that lacks `data`.
LacksRequiredKey(item) ==
    \/ "type" \notin DOMAIN item
    \/ item["type"] = "text" /\ "text" \notin DOMAIN item
    \/ item["type"] = "table" /\ "data" \notin DOMAIN item

\* The content lists handle_slide_content walks for descriptor d.
ContentKeys(d) ==
    {"content"} \cup (IF "layout" \in DOMAIN d /\ d["layout"] = 3
                      THEN {"left_content", "right_content"} ELSE {})

\* The descriptor has an out-of-range layout, or an item that lacks a required key.
FatalDescriptor(d) ==
    \/ ~ValidLayout(d)
    \/ \E key \in ContentKeys(d) \cap DOMAIN d :
          \E n \in DOMAIN d[key] : LacksRequiredKey(d[key][n])

\* The input has one of the fatal faults C5 names.
FatalInput ==
    \/ "presentation" \notin DOMAIN data
    \/ "slides" \notin DOMAIN data["presentation"]
    \/ \E i \in DOMAIN Descriptors : FatalDescriptor(Descriptors[i])

\* C5: a run whose input has a fatal fault (layout out of range, a missing
\* `presentation`, `slides`, `type`, `text` or `data`) returns None and
\* writes no output file; a file exists only once the run is over and the
\* input had no such fault; a file name is returned only when save was
\* reached with every earlier step done (properties set, one slide per
\* descriptor with the layout it asks for, table of contents, numbering);
\* and no slide is made for a descriptor whose layout is out of range.
C5_FatalErrors ==
    /\ (pc = "done" /\ FatalInput) => (result = "None" /\ outFile = "absent")
    /\ (pc # "new" /\ FatalInput) => (outFile = "absent" /\ result # Filename)
    /\ outFile # "absent" => (pc = "done" /\ ~FatalInput)
    /\ result = Filename =>
          /\ pc = "done" /\ error = "none" /\ outFile = "saved"
          /\ idx = Len(Descriptors)
          /\ Len(prs) = ExpectedSlideCount
          /\ \A k \in DOMAIN Descriptors : IsContentSlide(k)
          /\ \A k \in DOMAIN prs : Len(NumberLabels(prs[k])) = 1
          /\ \A key \in {"title", "author"} \cap DOMAIN data["presentation"] :
                key \in DOMAIN props /\ props[key] = data["presentation"][key]
    /\ \A i \in DOMAIN Descriptors :
          ~ValidLayout(Descriptors[i]) => (Len(prs) < i /\ idx <= i)

\* A run that built two slides, met an out-of-range layout on the third
\* descriptor, returned None and wrote no file.
C5_Witness ==
    /\ pc = "done"
    /\ error = "IndexError"
    /\ result = "None"
    /\ outFile = "absent"
    /\ Len(Descriptors) = 3
    /\ ~ValidLayout(Descriptors[3])
    /\ Len(prs) = 2

\* C6: a malformed or unreadable JSON input is surfaced by generate as the
\* failure sentinel None, and no exception reaches the caller.
C6_ParseErrorSurfaced ==
    (file.status # "ok" /\ pc # "new") => (pc = "done" /\ result = "None")

----------------------------------------------------------------------------
(* C7, C8: image references (checked on decks whose only faults are in     *)
(* their image references)                                                  *)

ImagesOf(k) ==
    IF "images" \in DOMAIN Descriptors[k] THEN Descriptors[k]["images"] ELSE <<>>

\* The image references of descriptor k that add_image has dealt with and
\* returned from, once create_slide has run on it: those before the first
\* reference without `path`.
Handled(k) ==
    {n \in DOMAIN ImagesOf(k) : \A m \in 1..n : "path" \in DOMAIN ImagesOf(k)[m]}

IsPicture(shape) == shape.kind = "picture"

PicturePaths(slide) ==
    [n \in DOMAIN SelectSeq(slide.shapes, IsPicture) |->
        SelectSeq(slide.shapes, IsPicture)[n].path]

IsReadableRef(img_data) ==
    img_data["path"] \in ExistingFiles /\ img_data["path"] \notin UnreadableImages

\* The paths of the handled references of descriptor k that name a
\* readable image file, in order.
ReadablePaths(k) ==
    [n \in DOMAIN SelectSeq(SubSeq(ImagesOf(k), 1, Cardinality(Handled(k))), IsReadableRef) |->
        SelectSeq(SubSeq(ImagesOf(k), 1, Cardinality(Handled(k))), IsReadableRef)[n]["path"]]

\* The handled references to a path that does not exist, over the
\* descriptors create_slide has run on.
MissingRefs(path) ==
    UNION {{<<k, n>> : n \in {m \in Handled(k) : ImagesOf(k)[m]["path"] = path}} :
              k \in 1..idx}

NotFoundMessages(path) ==
    {n \in DOMAIN log : log[n].msg = "image not found" /\ log[n].path = path}

EveryRefHasPath ==
    \A k \in DOMAIN Descriptors : \A n \in DOMAIN ImagesOf(k) : "path" \in DOMAIN ImagesOf(k)[n]

\* C7: an image reference whose path does not exist adds no picture and
\* prints one "not found" diagnostic; add_image returns, so that the other
\* references of the slide get their pictures, in order, and a deck whose
\* references all have a path never fails before the save step.
C7_MissingImage ==
    /\ \A k \in 1..idx :
          /\ \A n \in DOMAIN PicturePaths(prs[k]) : PicturePaths(prs[k])[n] \in ExistingFiles
          /\ PicturePaths(prs[k]) = ReadablePaths(k)
    /\ \A path \in {"missing.png", "gone.png"} :
          Cardinality(NotFoundMessages(path)) = Cardinality(MissingRefs(path))
    /\ EveryRefHasPath => ~FailedBeforeSave

\* A successful run whose first slide names a missing file and then a
\* readable one, and whose second slide names another missing file: one
\* picture on the first slide, two diagnostics.
C7_Witness ==
    /\ Succeeded
    /\ ImagesOf(1) = <<[path |-> "missing.png"], [path |-> "ok.png"]>>
    /\ ImagesOf(2) = <<[path |-> "gone.png"]>>
    /\ PicturePaths(prs[1]) = <<"ok.png">>
    /\ PicturePaths(prs[2]) = <<>>
    /\ Cardinality(NotFoundMessages("missing.png")) = 1
    /\ Cardinality(NotFoundMessages("gone.png")) = 1

\* C8: no image reference makes generate return None before the save step,
\* whatever is wrong with it (a reference without `path` included).
C8_NoImageFails ==
    FailedBeforeSave =>
        \A n \in DOMAIN ImagesOf(idx) : "path" \in DOMAIN ImagesOf(idx)[n]

----------------------------------------------------------------------------
(* C9, C10: tables (checked on decks with one table item on a slide)        *)

\* Descriptor k has, as its only content, a table item with `data`.
HasTableItem(k) ==
    /\ "content" \in DOMAIN Descriptors[k]
    /\ Len(Descriptors[k]["content"]) = 1
    /\ "type" \in DOMAIN Descriptors[k]["content"][1]
    /\ Descriptors[k]["content"][1]["type"] = "table"
    /\ "data" \in DOMAIN Descriptors[k]["content"][1]

TableItemOf(k) == Descriptors[k]["content"][1]

TableDataOf(k) == Descriptors[k]["content"][1]["data"]

IsTable(shape) == shape.kind = "table"

Tables(slide) == SelectSeq(slide.shapes, IsTable)

\* generate returned None because create_slide raised on descriptor k.
FailedAt(k) == FailedBeforeSave /\ idx = k

Degenerate(rowsData) == Len(rowsData) = 0 \/ Len(rowsData[1]) = 0

HeaderIsTrue(item) == "header" \in DOMAIN item /\ item["header"]

IsBold14(cell) ==
    /\ "bold" \in DOMAIN cell.font /\ cell.font["bold"]
    /\ "size" \in DOMAIN cell.font /\ cell.font["size"] = 14 * 12700

\* C9: once create_slide has run on a descriptor with a table item, the
\* slide has no table shape, and create_slide has raised nothing, if `data`
\* has no rows or row 0 is empty; otherwise the slide has exactly one table,
\* of len(data) rows and len(data[0]) columns whatever the other rows are,
\* whose row-0 cells are bold 14 pt if `header` is true and have no bold
\* setting otherwise.
C9_Tables ==
    \A k \in 1..idx : HasTableItem(k) =>
        IF Degenerate(TableDataOf(k))
        THEN Tables(prs[k]) = <<>> /\ ~FailedAt(k)
        ELSE /\ Len(Tables(prs[k])) = 1
             /\ Tables(prs[k])[1].rows = Len(TableDataOf(k))
             /\ Tables(prs[k])[1].cols = Len(TableDataOf(k)[1])
             /\ DOMAIN Tables(prs[k])[1].cells = 1..Len(TableDataOf(k))
             /\ \A i \in 1..Len(TableDataOf(k)) :
                   DOMAIN Tables(prs[k])[1].cells[i] = 1..Len(TableDataOf(k)[1])
             /\ \A j \in 1..Len(TableDataOf(k)[1]) :
                   IF HeaderIsTrue(TableItemOf(k))
                   THEN IsBold14(Tables(prs[k])[1].cells[1][j])
                   ELSE "bold" \notin DOMAIN Tables(prs[k])[1].cells[1][j].font

\* A successful run with a 2 x 2 table under a true `header`: row 0 is
\* bold, the row below is not.
C9_Witness ==
    \E k \in 1..idx :
        /\ HasTableItem(k)
        /\ HeaderIsTrue(TableItemOf(k))
        /\ Len(TableDataOf(k)) = 2
        /\ Len(TableDataOf(k)[1]) = 2 /\ Len(TableDataOf(k)[2]) = 2
        /\ Len(Tables(prs[k])) = 1
        /\ IsBold14(Tables(prs[k])[1].cells[1][1])
        /\ IsBold14(Tables(prs[k])[1].cells[1][2])
        /\ "bold" \notin DOMAIN Tables(prs[k])[1].cells[2][1].font
        /\ Succeeded

\* Some row of the table is not as long as row 0.
NonRectangular(rowsData) ==
    \E i \in DOMAIN rowsData : Len(rowsData[i]) # Len(rowsData[1])

\* Some row of the table is longer than its non-empty row 0.
HasLongerRow(rowsData) ==
    /\ ~Degenerate(rowsData)
    /\ \E i \in DOMAIN rowsData : Len(rowsData[i]) > Len(rowsData[1])

\* C10 as stated: a run on a deck with a table whose rows differ in length
\* from row 0, longer or shorter, ends with None before the save step and
\* no output file.
C10_Original ==
    (pc = "done" /\ \E k \in DOMAIN Descriptors :
                       HasTableItem(k) /\ NonRectangular(TableDataOf(k)))
        => (FailedBeforeSave /\ outFile = "absent")

\* C10, amended: a table item with a row longer than its non-empty row 0
\* is fatal: create_slide raises IndexError on it, generate returns None
\* and no output file is written. Any other table with `data` raises
\* nothing: a row shorter than row 0 leaves its missing cells empty.
C10_RaggedTable ==
    \A k \in 1..idx : HasTableItem(k) =>
        IF HasLongerRow(TableDataOf(k))
        THEN /\ FailedAt(k)
             /\ error = "IndexError"
             /\ result = "None"
             /\ outFile = "absent"
        ELSE /\ ~FailedAt(k)
             /\ ~Degenerate(TableDataOf(k)) =>
                   \A i \in 1..Len(TableDataOf(k)) :
                       \A j \in 1..Len(TableDataOf(k)[1]) :
                           Tables(prs[k])[1].cells[i][j].text =
                               (IF j <= Len(TableDataOf(k)[i])
                                THEN TableDataOf(k)[i][j] ELSE <<>>)

\* A run that ended with None on a table whose second row is longer than
\* its first: the table shape is in the document, no file is on disk.
C10_Witness ==
    \E k \in 1..idx :
        /\ HasTableItem(k)
        /\ Len(TableDataOf(k)) = 2
        /\ Len(TableDataOf(k)[1]) = 1 /\ Len(TableDataOf(k)[2]) = 2
        /\ FailedAt(k)
        /\ error = "IndexError"
        /\ result = "None"
        /\ outFile = "absent"
        /\ Len(Tables(prs[k])) = 1

----------------------------------------------------------------------------
(* C11: text styles (checked on decks with one text item on a slide)        *)

\* Descriptor k has, as its only content, a text item with `text`.
HasTextItem(k) ==
    /\ "content" \in DOMAIN Descriptors[k]
    /\ Len(Descriptors[k]["content"]) = 1
    /\ "type" \in DOMAIN Descriptors[k]["content"][1]
    /\ Descriptors[k]["content"][1]["type"] = "text"
    /\ "text" \in DOMAIN Descriptors[k]["content"][1]

\* The style of the text item of descriptor k, empty when it has none.
StyleOf(k) ==
    IF "style" \in DOMAIN Descriptors[k]["content"][1]
    THEN Descriptors[k]["content"][1]["style"] ELSE Empty

\* The font of the paragraph add_text_item made on slide k: the paragraph
\* after the empty one a new text box starts with.
ItemFont(k) == SelectSeq(prs[k].shapes, IsTextbox)[1].paragraphs[2].font

FontFields == {"bold", "italic", "size", "color"}

\* Field f of font holds what the style gives for it.
HoldsSpecified(font, styles, f) ==
    /\ f \in DOMAIN font
    /\ font[f] = (IF f = "size" THEN styles[f] * 12700 ELSE styles[f])

\* C11 as stated: every font field the style has is set to the value the
\* style gives, a false bold or italic included, and no other field is set.
C11_Original ==
    \A k \in 1..idx : (HasTextItem(k) /\ ~FailedAt(k)) =>
        \A f \in FontFields :
            IF f \in DOMAIN StyleOf(k)
            THEN HoldsSpecified(ItemFont(k), StyleOf(k), f)
            ELSE f \notin DOMAIN ItemFont(k)

\* C11, amended: on a text item that apply_text_styles raises nothing on,
\* size and color are set to the value the style gives when the style has
\* them; bold and italic are set, to true, only when the style gives them
\* as true, and a false bold or italic is left at the template default
\* like an absent one; no other field is set, and an item without `style`
\* sets none.
C11_Additive ==
    \A k \in 1..idx : (HasTextItem(k) /\ ~FailedAt(k)) =>
        /\ DOMAIN ItemFont(k) \subseteq FontFields
        /\ \A f \in {"size", "color"} :
              IF f \in DOMAIN StyleOf(k)
              THEN HoldsSpecified(ItemFont(k), StyleOf(k), f)
              ELSE f \notin DOMAIN ItemFont(k)
        /\ \A f \in {"bold", "italic"} :
              IF f \in DOMAIN StyleOf(k) /\ StyleOf(k)[f]
              THEN HoldsSpecified(ItemFont(k), StyleOf(k), f)
              ELSE f \notin DOMAIN ItemFont(k)
        /\ "style" \notin DOMAIN Descriptors[k]["content"][1] => ItemFont(k) = Empty

\* A successful run on a text item with style {bold: false, italic: true,
\* size: 16, color: [0, 51, 102]}: italic, 16 pt and the colour are set,
\* bold is not.
C11_Witness ==
    \E k \in 1..idx :
        /\ HasTextItem(k)
        /\ Succeeded
        /\ StyleOf(k) = [bold |-> FALSE, italic |-> TRUE, size |-> 16,
                         color |-> <<0, 51, 102>>]
        /\ "bold" \notin DOMAIN ItemFont(k)
        /\ ItemFont(k)["italic"]
        /\ ItemFont(k)["size"] = 16 * 12700
        /\ ItemFont(k)["color"] = <<0, 51, 102>>

----------------------------------------------------------------------------
(* C12: the accumulated titles                                              *)

\* The descriptors create_slide has made a slide for and got to the title
\* of: those the loop has taken, but one whose layout is out of range.
Processed == {i \in 1..idx : ValidLayout(Descriptors[i])}

\* C12: at every point of a generation run slide_titles holds, in deck
\* order, the non-empty titles of the descriptors processed so far and
\* nothing else: one entry per processed descriptor with a non-empty title,
\* none for an untitled one, and nothing added, removed or reordered by the
\* content, image, table-of-contents, numbering or save steps.
C12_Titles ==
    /\ Len(slide_titles) = Cardinality(Titled \cap Processed)
    /\ \A n \in DOMAIN slide_titles :
          /\ NthTitled(n) \in Processed
          /\ slide_titles[n] = DescriptorTitle(NthTitled(n))

\* The end of a successful run on an untitled slide followed by slides
\* titled "A" and "B", with a table of contents emitted: two entries.
C12_Witness ==
    /\ Succeeded
    /\ TocEmitted
    /\ Len(Descriptors) = 3
    /\ Titled = {2, 3}
    /\ "content" \in DOMAIN Descriptors[3]
    /\ slide_titles = <<(<<"A">>), (<<"B">>)>>

----------------------------------------------------------------------------
(* C13: regions (checked on decks whose slides list one text item under    *)
(* each content key, the text naming the key)                               *)

LeftRegion == <<Inches(5), Inches(15), Inches(42), Inches(50)>>

RightRegion == <<Inches(48), Inches(15), Inches(42), Inches(50)>>

FullRegion == <<Inches(5), Inches(15), Inches(90), Inches(50)>>

RegionOf(shape) == <<shape.left, shape.top, shape.width, shape.height>>

\* Two regions share no point: one ends before the other starts,
\* horizontally or vertically.
Disjoint(r, q) ==
    \/ r[1] + r[3] <= q[1] \/ q[1] + q[3] <= r[1]
    \/ r[2] + r[4] <= q[2] \/ q[2] + q[4] <= r[2]

IsContentBox(shape) == IsTextbox(shape) /\ ~IsNumberLabel(shape)

\* The text boxes add_content_to_slide made on a slide.
ContentBoxes(slide) == SelectSeq(slide.shapes, IsContentBox)

\* The content key a box was made for, told by the text of its item.
KeyOf(box) ==
    CASE box.paragraphs[2].text = <<"c">> -> "content"
      [] box.paragraphs[2].text = <<"l">> -> "left_content"
      [] box.paragraphs[2].text = <<"r">> -> "right_content"
      [] OTHER -> "none"

LayoutOf(d) == IF "layout" \in DOMAIN d THEN d["layout"] ELSE 1

\* C13: every text box of the content mapper lies in the left, the right
\* or the full-width region; on a layout-3 slide `left_content` lies in the
\* left region and `right_content` in the right one, the two are disjoint
\* and each holds only the box of its own column; on any other layout
\* `content` lies in the full-width region and `left_content` and
\* `right_content` make no text box.
C13_Regions ==
    /\ Disjoint(LeftRegion, RightRegion)
    /\ \A k \in 1..idx :
          LET boxes == ContentBoxes(prs[k])
          IN  /\ \A n \in DOMAIN boxes :
                    RegionOf(boxes[n]) \in {LeftRegion, RightRegion, FullRegion}
              /\ IF LayoutOf(Descriptors[k]) = 3
                 THEN \A n \in DOMAIN boxes :
                          /\ KeyOf(boxes[n]) = "left_content" <=>
                                 RegionOf(boxes[n]) = LeftRegion
                          /\ KeyOf(boxes[n]) = "right_content" <=>
                                 RegionOf(boxes[n]) = RightRegion
                 ELSE \A n \in DOMAIN boxes :
                          /\ KeyOf(boxes[n]) = "content"
                          /\ RegionOf(boxes[n]) = FullRegion

----------------------------------------------------------------------------
(* C14: the subtitle                                                        *)

\* Slides to apply add_subtitle to: up to three placeholders, each a centre
\* title (3), a subtitle (4) or of the type code add_subtitle looks for (15).
PlaceholderSlides ==
    { [layout |-> 0,
       placeholders |-> [k \in DOMAIN ts |-> [idx |-> k - 1, type |-> ts[k]]],
       shapes |-> <<>>] : ts \in SeqsOf({3, 4, 15}, 0, 3) }

\* The positions of the placeholders of type 15.
TypedPlaceholders(slide) ==
    {k \in DOMAIN slide.placeholders : slide.placeholders[k].type = 15}

\* The positions of the placeholders that differ between two slides.
ChangedPlaceholders(before, after) ==
    {k \in DOMAIN before.placeholders : after.placeholders[k] # before.placeholders[k]}

\* after is before with the text written to placeholder k and to no other.
WrittenOnlyTo(before, after, k, text) ==
    /\ ChangedPlaceholders(before, after) = {k}
    /\ "text" \in DOMAIN after.placeholders[k]
    /\ after.placeholders[k].text = text
    /\ after.placeholders[k].type = before.placeholders[k].type

\* What add_subtitle may do to a slide, by precedence.
SubtitlePrecedence(before, after, text) ==
    /\ after.layout = before.layout
    /\ after.shapes = before.shapes
    /\ DOMAIN after.placeholders = DOMAIN before.placeholders
    /\ IF TypedPlaceholders(before) # {}
       THEN \E k \in TypedPlaceholders(before) :
               /\ \A m \in TypedPlaceholders(before) : k <= m
               /\ WrittenOnlyTo(before, after, k, text)
       ELSE IF Len(before.placeholders) >= 2
       THEN WrittenOnlyTo(before, after, 2, text)
       ELSE after = before

\* The positions of the placeholders of a slide that hold a text.
WithText(slide) == {k \in DOMAIN slide.placeholders : "text" \in DOMAIN slide.placeholders[k]}

\* C14: add_subtitle writes the text to one placeholder at most: the first
\* of type 15 if there is one, otherwise the second placeholder if the
\* slide has two, otherwise none, and it raises nothing. In a run it is
\* called only on a layout-0 slide whose descriptor has `subtitle`, where
\* the text lands in the second placeholder beside the title in the first;
\* on any other layout `subtitle` changes nothing: only the title
\* placeholder, if there is one, holds a text.
C14_Subtitle ==
    /\ \A slide \in PlaceholderSlides :
          SubtitlePrecedence(slide, AddSubtitle(slide, <<"s">>), <<"s">>)
    /\ \A k \in 1..idx :
          /\ ~FailedAt(k)
          /\ IF LayoutOf(Descriptors[k]) = 0 /\ "subtitle" \in DOMAIN Descriptors[k]
             THEN /\ WithText(prs[k]) = {1, 2}
                  /\ prs[k].placeholders[1].text = DescriptorTitle(k)
                  /\ prs[k].placeholders[2].text = Descriptors[k]["subtitle"]
             ELSE /\ WithText(prs[k]) \subseteq {1}
                  /\ TitleOf(prs[k]) \in {DescriptorTitle(k), <<>>}

\* A successful run on a layout-0 slide with title "A" and subtitle "s":
\* the first placeholder holds the title, the second the subtitle.
C14_Witness ==
    \E k \in 1..idx :
        /\ Succeeded
        /\ LayoutOf(Descriptors[k]) = 0
        /\ "subtitle" \in DOMAIN Descriptors[k]
        /\ TypedPlaceholders(prs[k]) = {}
        /\ prs[k].placeholders[1].text = <<"A">>
        /\ prs[k].placeholders[2].text = <<"s">>

----------------------------------------------------------------------------
(* C15: repeated calls of generate                                          *)

\* The lines of the table of contents of a saved document, <<>> when its
\* last slide is not a table of contents.
TocLinesOf(slides) ==
    IF Len(slides) > 0 /\ IsTocSlide(slides[Len(slides)])
    THEN SelectSeq(SelectSeq(slides[Len(slides)].shapes, IsTextbox)[1].paragraphs, HasText)
    ELSE <<>>

\* The number labels of a saved document, slide by slide.
LabelsOf(slides) == [k \in DOMAIN slides |-> NumberLabels(slides[k])]

\* C15: every generate call on the same generator starts from an empty
\* title list and an empty document, and every call that saves writes a
\* document with as many slides, the same table-of-contents lines and the
\* same slide-number labels as the one the first call wrote.
C15_CallScoped ==
    /\ (pc \in {"slides", "toc"} /\ idx = 0) => (slide_titles = <<>> /\ prs = <<>>)
    /\ \A n \in DOMAIN saved :
          saved[1].call = 1 =>
              /\ Len(saved[n].slides) = Len(saved[1].slides)
              /\ TocLinesOf(saved[n].slides) = TocLinesOf(saved[1].slides)
              /\ LabelsOf(saved[n].slides) = LabelsOf(saved[1].slides)

====
